---- MODULE Spec2Model ----
(***************************************************************************)
(* The runtime that the @bedrock-core/ui documentation describes: render() *)
(* with its input lock, the snapshot presented to each player, the hook    *)
(* state that keeps running in the background, and Suspense boundaries     *)
(* driven by the game's tick loop.                                         *)
(***************************************************************************)
EXTENDS Integers, Sequences, FiniteSets, TLC

\* ---------------------------------------------------------------- inputs
Players == {"p1", "p2"}
Screens == {"Screen1", "Screen2"}
Null == "null"
Values == {"null", "loaded"}
DefaultValue == "null"

DefaultAwaitTimeout == 20
MaxTimeoutProp == 1
MaxQueue == 1
MaxBoundaries == 2
MaxRuns == 4
MaxDispatch == 4
MaxPresses == 2
MaxTicks == 2
MaxDepth == 3
MaxEvents == 3
MaxChars == 81
MaxWide == 2
MaxTexture == 33
MaxLoop == 12

\* the components with hooks: Timer has the states, effects and ref of the
\* Timer, MultiEffect and useRef examples
HookScreens == {"Timer", "Counter", "Form"}

\* the components that call exit(): the Timer with a CloseButton in its
\* tree, and ExitAfterSave
ExitScreens == {"Timer", "ExitAfterSave"}

\* the components whose state is set by callbacks that run in the
\* background: of a signal, of an interval, of other logic
WidgetScreens == {"ItemUseTracker", "EventHandler", "MultiState", "Countdown"}

\* the components whose effect sets its own dependency, with the condition
\* count < 10 and without it
LoopScreens == {"GuardedLoop", "UnguardedLoop"}
LoopLimit == 10
InitialTime == 60

\* the App: context providers nested in each other, each with a Display
\* consumer as child, and one Display above them all
AppScreens == {"App"}
Contexts == {"CountContext", "ThemeContext"}
DefaultOf == [CountContext |-> 0, ThemeContext |-> 10]
ProviderValues == {1, 2}
ProviderNodes == [context : Contexts, value : ProviderValues]

\* the Form: a Panel holding, each rendered on a condition, a Button and a
\* Child component with a state and an interval; its props come from these
\* states
FlagNames == {"panelVisible", "panelEnabled", "buttonVisible", "buttonEnabled",
              "childVisible", "showChild", "showButton"}

\* the states of the Form that logic running in the background sets
BackgroundFlags == {"buttonEnabled", "showButton"}
FormInitial == [f \in FlagNames |-> TRUE]

\* the action types the Counter dispatches, and one its reducer does not know
ActionTypes == {"increment", "decrement", "reset", "other"}
InitialState == 0
Names == {"Player", "Steve"}
InitialCount == 0
InitialName == "Player"
RefValues == {"null", "run1"}
InitialRef == "null"

\* the Label: a Text and an Image; the limits of the serialization protocol
\* on the value of the one and the texture of the other, in bytes
LabelScreens == {"Label"}
TextLimit == 80
TextureLimit == 32

\* a string given as value: its number of characters, and how many of them
\* take two bytes in UTF-8, as the formatting sign does
TextValues == {v \in [chars : 0..MaxChars, wide : 0..MaxWide] : v.wide <= v.chars}
NoText == [chars |-> 0, wide |-> 0]

\* a texture path, of one-byte characters
TexturePaths == 0..MaxTexture

\* the items whose use is reported by world.afterEvents.itemUse
Items == {"apple", "stick"}
InitialItem == "None"

\* the awaitTimeout prop of a Suspense boundary: omitted (<<>>), or a tick count
TimeoutProps == {<<>>} \cup {<<t>> : t \in 1..MaxTimeoutProp}

\* no form is shown
NoSnapshot == [root |-> Null, isOn |-> FALSE, content |-> <<>>]

VARIABLES
    online,        \* players whose Player object is valid
    catalog,       \* the screens the add-on renders
    suspenseProps, \* awaitTimeout props of the tree's Suspense boundaries, in tree order
    forms,         \* forms[p]: the forms currently shown to p
    locked,        \* locked[p]: the input lock of p
    renderQueue,   \* renderQueue[p]: render() calls queued while p was locked
    isOn,          \* isOn[p]: useState(false) of the root component
    data,          \* data[p][b]: useState(null) of the child wrapped by boundary b
    resolved,      \* resolved[p][b]: the child of boundary b has resolved
    elapsed,       \* elapsed[p]: ticks the boundaries of p's tree have been waiting
    presented,     \* presented[p]: the snapshot shown to p, or NoSnapshot
    flushes,       \* flushes[p]: snapshots presented because the boundaries finished
    calls,         \* calls[p][b]: the setter calls made on the child: none, only with the
                   \* default value ("default"), or one with another value ("other")
    count,         \* count[p]: hook cell of useState(0): <<>> before the first execution
    name,          \* name[p]: hook cell of useState('Player')
    lastExec,      \* lastExec[p]: what the useState calls returned in the latest execution
    ref,           \* ref[p]: hook cell of useRef(null): the ref object, with its identity
    runs,          \* runs[p][i]: times effect i of the latest instance has run
    cleanups,      \* cleanups[p][i]: times the cleanup returned by effect i was called
    updates,       \* updates[p]: functional updates issued to setCount since the mount
    reducerState,  \* reducerState[p]: hook cell of useReducer(reducer, { count: 0 })
    dispatched,    \* dispatched[p]: the action types dispatched since the mount
    flags,         \* flags[p]: the useState(true) cells behind the Form's props
    presses,       \* presses[p]: times the onPress of the Form's Button was invoked
    child,         \* child[p]: hook cell of the Child's useState(0), <<>> without instance
    hiddenTicks,   \* hiddenTicks[p]: runs of the Child's interval while it was hidden
    providers,     \* the providers of the App's tree, from the outermost to the innermost
    contextRead,   \* contextRead[p][k][c]: what useContext(c) returned to the Display
                   \* that has k - 1 providers above it
    exitRequested, \* exitRequested[p]: the function returned by useExit was called
                   \* in the UI p was shown last
    isSaved,       \* isSaved[p]: useState(false) of ExitAfterSave
    useCount,      \* useCount[p]: hook cell of useState(0) of the component with useEvent
    lastItem,      \* lastItem[p]: hook cell of useState('None')
    subs,          \* subs[p]: the callbacks of p's instance subscribed on the signal,
                   \* each named by the execution that made it
    viewer,        \* viewer[p]: what usePlayer returned in the latest execution of
                   \* p's tree, <<>> without one
    textValue,     \* the value prop the Label gives its Text
    texture,       \* the texture prop the Label gives its Image: the length of the path
    payload,       \* payload[p]: the bytes the text and the texture path occupy in
                   \* the snapshot presented to p, <<>> without a Label
    multi,         \* multi[p]: the hook cells of MultiState (count, name, isActive)
    timeLeft,      \* timeLeft[p]: hook cell of useState(60) of the Countdown
    intervals,     \* intervals[p]: the live intervals of p's Countdown, each with the
                   \* timeLeft its callback captured
    loopCount,     \* loopCount[p]: hook cell of useState(0) of a component of LoopScreens
    effectDue      \* effectDue[p]: the effect of that component has to run: after the
                   \* first execution, or its dependency changed

hookVars == <<count, name, lastExec, ref, runs, cleanups, updates>>

reducerVars == <<reducerState, dispatched>>

formVars == <<flags, presses, child, hiddenTicks>>

contextVars == <<providers, contextRead>>

exitVars == <<exitRequested, isSaved>>

eventVars == <<useCount, lastItem, subs>>

payloadVars == <<textValue, texture, payload>>

multiVars == <<multi>>

countdownVars == <<timeLeft, intervals>>

loopVars == <<loopCount, effectDue>>

appVars == <<exitVars, eventVars, payloadVars, multiVars, countdownVars, loopVars>>

componentVars == <<hookVars, reducerVars, formVars, contextVars, appVars>>

vars == <<online, catalog, suspenseProps, forms, locked, renderQueue, isOn, data,
          resolved, elapsed, presented, flushes, calls, viewer, componentVars>>

\* ---------------------------------------------------------------- helpers
TreeBoundaries == 1..Len(suspenseProps)

\* the prop is ignored and every boundary waits the default time
AwaitTimeoutIgnoresProp(prop) == DefaultAwaitTimeout

AwaitTimeout(prop) == IF prop = <<>> THEN DefaultAwaitTimeout ELSE prop[1]

Root(p) == IF forms[p] = <<>> THEN Null ELSE forms[p][Len(forms[p])]

Mounted(p) == forms[p] # <<>>

\* boundary b is still waiting: not timed out and child not resolved
Pending(res, el, b) == ~res[b] /\ el < AwaitTimeout(suspenseProps[b])

AnyPending(res, el) == \E b \in TreeBoundaries : Pending(res, el, b)

\* a serializer that never substitutes the fallback
SerializeChildren(root, on, dat, res, el) ==
    [root |-> root, isOn |-> on, content |-> [b \in TreeBoundaries |-> dat[b]]]

\* what the serialized tree shows: the fallback of a waiting boundary, its children otherwise
Serialize(root, on, dat, res, el) ==
    [root |-> root, isOn |-> on,
     content |-> [b \in TreeBoundaries |->
                    IF Pending(res, el, b) THEN "fallback" ELSE dat[b]]]

\* the Timer's tree: one Text with the count
SerializeTimer(root, cnt) ==
    [root |-> root, isOn |-> FALSE, content |-> <<ToString(cnt)>>]

InitialData == [b \in TreeBoundaries |-> DefaultValue]
NoneResolved == [b \in TreeBoundaries |-> FALSE]
NoCalls == [b \in TreeBoundaries |-> "none"]

\* ---------------------------------------------------------------- hooks
\* one Player object handed to every tree, whoever views it
UsePlayerShared(p) == CHOOSE q \in online : TRUE

\* usePlayer() in an execution of the tree rendered for p: the player who is
\* viewing the UI
UsePlayer(p) == p

\* the effects a component declares, in call order: whether a dependency array
\* is given, the states it lists, and whether the effect returns a cleanup
TimerEffects ==
    << [given |-> FALSE, deps |-> {}, cleanup |-> FALSE],
       [given |-> TRUE, deps |-> {}, cleanup |-> TRUE],
       [given |-> TRUE, deps |-> {"count"}, cleanup |-> TRUE],
       [given |-> TRUE, deps |-> {"name"}, cleanup |-> FALSE] >>

Effects(e) == IF e = "Timer" THEN TimerEffects ELSE <<>>

NoExec == [count |-> InitialCount, name |-> InitialName]

\* useState that takes its argument on every execution
UseStateInitial(cell, initial) == initial

\* useState(initial): the initial value on the first execution, the stored
\* state afterwards
UseState(cell, initial) == IF cell = <<>> THEN initial ELSE cell[1]

\* useRef that makes a new ref object on every execution
UseRefFresh(cell, initial) ==
    [id |-> IF cell = <<>> THEN 1 ELSE cell[1].id + 1, current |-> initial]

\* useRef(initialValue): a new ref object on the first execution, that same
\* object afterwards
UseRef(cell, initial) ==
    IF cell = <<>> THEN [id |-> 1, current |-> initial] ELSE cell[1]

\* an empty dependency array treated like an omitted one
EffectRunsOnEmpty(decl, first, prev, cur) ==
    \/ ~decl.given
    \/ decl.deps = {}
    \/ first
    \/ \E d \in decl.deps : prev[d] # cur[d]

\* the dependency array is looked at on the first execution only
EffectRunsOnce(decl, first, prev, cur) == ~decl.given \/ first

\* does the effect run after this execution: deps omitted, or first
\* execution, or a dependency differs from the previous execution
EffectRuns(decl, first, prev, cur) ==
    \/ ~decl.given
    \/ first
    \/ \E d \in decl.deps : prev[d] # cur[d]

\* the setter is given the value its callback's closure captured
ClosureUpdate(prev, seen) == seen + 1

\* setCount(c => c + 1): the function receives the previous state
FunctionalUpdate(prev, seen) == prev + 1

\* one execution of the component e of p with the hook cells cnt and nm: the
\* hooks return their values, then the effects that have to run do so, each
\* after the cleanup its previous run returned
Execute(p, e, cnt, nm) ==
    LET first == cnt = <<>>
        cur == [count |-> UseState(cnt, InitialCount),
                name |-> UseState(nm, InitialName)]
        oldRuns == IF first THEN [i \in DOMAIN Effects(e) |-> 0] ELSE runs[p]
        oldCleanups == IF first THEN [i \in DOMAIN Effects(e) |-> 0] ELSE cleanups[p]
        ran(i) == EffectRuns(Effects(e)[i], first, lastExec[p], cur)
    IN  /\ count' = [count EXCEPT ![p] = <<cur.count>>]
        /\ name' = [name EXCEPT ![p] = <<cur.name>>]
        /\ lastExec' = [lastExec EXCEPT ![p] = cur]
        /\ ref' = [ref EXCEPT ![p] = <<UseRef(IF first THEN <<>> ELSE ref[p], InitialRef)>>]
        /\ runs' = [runs EXCEPT ![p] =
                        [i \in DOMAIN Effects(e) |->
                            IF ran(i) THEN oldRuns[i] + 1 ELSE oldRuns[i]]]
        /\ cleanups' = [cleanups EXCEPT ![p] =
                        [i \in DOMAIN Effects(e) |->
                            IF ran(i) /\ Effects(e)[i].cleanup /\ oldRuns[i] > oldCleanups[i]
                            THEN oldCleanups[i] + 1 ELSE oldCleanups[i]]]

\* Mount: hooks are initialized by the first execution of the component
MountHooks(p, e) ==
    IF e = "Timer"
    THEN /\ Execute(p, e, <<>>, <<>>)
         /\ updates' = [updates EXCEPT ![p] = 0]
    ELSE /\ count' = [count EXCEPT ![p] = <<>>]
         /\ name' = [name EXCEPT ![p] = <<>>]
         /\ lastExec' = [lastExec EXCEPT ![p] = NoExec]
         /\ ref' = [ref EXCEPT ![p] = <<>>]
         /\ runs' = [runs EXCEPT ![p] = <<>>]
         /\ cleanups' = [cleanups EXCEPT ![p] = <<>>]
         /\ updates' = [updates EXCEPT ![p] = 0]

\* an unmount that drops the instance without calling any cleanup
UnmountWithoutCleanup(p) ==
    /\ count' = [count EXCEPT ![p] = <<>>]
    /\ name' = [name EXCEPT ![p] = <<>>]
    /\ lastExec' = [lastExec EXCEPT ![p] = NoExec]
    /\ ref' = [ref EXCEPT ![p] = <<>>]
    /\ updates' = [updates EXCEPT ![p] = 0]
    /\ UNCHANGED <<runs, cleanups>>

\* Unmount: cleanup callbacks run, the instance and its hook cells are gone
UnmountHooks(p) ==
    /\ cleanups' = [cleanups EXCEPT ![p] =
                    [i \in DOMAIN runs[p] |->
                        IF Effects(Root(p))[i].cleanup /\ runs[p][i] > cleanups[p][i]
                        THEN cleanups[p][i] + 1 ELSE cleanups[p][i]]]
    /\ count' = [count EXCEPT ![p] = <<>>]
    /\ name' = [name EXCEPT ![p] = <<>>]
    /\ lastExec' = [lastExec EXCEPT ![p] = NoExec]
    /\ ref' = [ref EXCEPT ![p] = <<>>]
    /\ updates' = [updates EXCEPT ![p] = 0]
    /\ UNCHANGED runs

\* a reducer that is always given the initial state
ReducerOnInitial(state, action) ==
    CASE action = "increment" -> InitialState + 1
      [] action = "decrement" -> InitialState - 1
      [] action = "reset" -> 0
      [] OTHER -> InitialState

\* the Counter's reducer, on the count of its state
Reducer(state, action) ==
    CASE action = "increment" -> state + 1
      [] action = "decrement" -> state - 1
      [] action = "reset" -> 0
      [] OTHER -> state

\* Mount: useReducer starts from the initial state
MountReducer(p, e) ==
    /\ reducerState' = [reducerState EXCEPT ![p] =
                            IF e = "Counter" THEN <<InitialState>> ELSE <<>>]
    /\ dispatched' = [dispatched EXCEPT ![p] = <<>>]

UnmountReducer(p) ==
    /\ reducerState' = [reducerState EXCEPT ![p] = <<>>]
    /\ dispatched' = [dispatched EXCEPT ![p] = <<>>]

\* the visible and enabled props each component of the Form is given
OwnVisible(fl, c) ==
    CASE c = "Panel" -> fl.panelVisible
      [] c = "Button" -> fl.buttonVisible
      [] OTHER -> fl.childVisible

OwnEnabled(fl, c) ==
    CASE c = "Panel" -> fl.panelEnabled
      [] c = "Button" -> fl.buttonEnabled
      [] OTHER -> TRUE

\* enabled that looks at the component's own prop only
IsEnabledOwn(fl, c) == OwnEnabled(fl, c)

\* visible and enabled cascade: a child of an invisible or disabled parent
\* inherits that state
IsEnabled(fl, c) == OwnEnabled(fl, c) /\ (c = "Panel" \/ OwnEnabled(fl, "Panel"))

IsVisible(fl, c) == OwnVisible(fl, c) /\ (c = "Panel" \/ OwnVisible(fl, "Panel"))

\* a hidden component treated like one that is not rendered
ChildExistsIfVisible(fl) == fl.showChild /\ IsVisible(fl, "Child")

\* {showChild && <Child />}: the instance exists while the condition holds
ChildExists(fl) == fl.showChild

\* {showButton && <Button />}
ButtonExists(fl) == fl.showButton

\* what the serialized Form shows of the Button and of the Child
SerializeForm(root, fl) ==
    [root |-> root, isOn |-> FALSE,
     content |-> << IF ~ButtonExists(fl) /\ OwnVisible(fl, "Panel") THEN "none"
                    ELSE IF ~IsVisible(fl, "Button") THEN "hidden"
                    ELSE IF IsEnabled(fl, "Button") THEN "Button" ELSE "disabled",
                    IF ~ChildExists(fl) THEN "none"
                    ELSE IF IsVisible(fl, "Child") THEN "Child" ELSE "hidden" >>]

MountForm(p, e) ==
    /\ flags' = [flags EXCEPT ![p] = FormInitial]
    /\ presses' = [presses EXCEPT ![p] = 0]
    /\ child' = [child EXCEPT ![p] =
                    IF e = "Form" /\ ChildExists(FormInitial) THEN <<0>> ELSE <<>>]
    /\ hiddenTicks' = [hiddenTicks EXCEPT ![p] = 0]

UnmountForm(p) ==
    /\ flags' = [flags EXCEPT ![p] = FormInitial]
    /\ presses' = [presses EXCEPT ![p] = 0]
    /\ child' = [child EXCEPT ![p] = <<>>]
    /\ hiddenTicks' = [hiddenTicks EXCEPT ![p] = 0]

\* useContext that takes the outermost provider of the context
UseContextOutermost(ctx, depth) ==
    LET above == {i \in 1..depth : providers[i].context = ctx}
    IN  IF above = {} THEN DefaultOf[ctx]
        ELSE providers[CHOOSE i \in above : \A j \in above : i <= j].value

\* useContext(ctx) in a component with the providers 1..depth above it: the
\* value of the nearest one of ctx, the context's defaultValue without one
RECURSIVE UseContext(_, _)
UseContext(ctx, depth) ==
    IF depth = 0 THEN DefaultOf[ctx]
    ELSE IF providers[depth].context = ctx THEN providers[depth].value
         ELSE UseContext(ctx, depth - 1)

\* Mount: every Display of the App is executed and reads the contexts
MountContext(p, e) ==
    /\ contextRead' = [contextRead EXCEPT ![p] =
                          IF e \in AppScreens
                          THEN [k \in 1..(Len(providers) + 1) |->
                                  [c \in Contexts |-> UseContext(c, k - 1)]]
                          ELSE <<>>]
    /\ UNCHANGED providers

UnmountContext(p) ==
    /\ contextRead' = [contextRead EXCEPT ![p] = <<>>]
    /\ UNCHANGED providers

\* the tree of ExitAfterSave: one Text with the state, above the Button
SerializeSave(root, saved) ==
    [root |-> root, isOn |-> FALSE,
     content |-> <<IF saved THEN "Saved: Yes" ELSE "Saved: No">>]

\* Mount: useState(false), and no exit() call yet in this UI
MountExit(p, e) ==
    /\ exitRequested' = [exitRequested EXCEPT ![p] = FALSE]
    /\ isSaved' = [isSaved EXCEPT ![p] = FALSE]

UnmountExit(p) ==
    /\ isSaved' = [isSaved EXCEPT ![p] = FALSE]
    /\ UNCHANGED exitRequested

\* the tree of ItemUseTracker: the count of item uses and the last item
SerializeTracker(root, uses, item) ==
    [root |-> root, isOn |-> FALSE, content |-> <<ToString(uses), item>>]

\* do the dependencies of the useEvent call differ from the previous
\* execution: ItemUseTracker gives no deps, so they are signal, callback and
\* options, and the callback is a new function in every execution;
\* EventHandler gives [player], which stays the same
DepsChanged(e) == e = "ItemUseTracker"

\* a re-subscription that leaves the old callback subscribed
UseEventLeaks(held, first, changed, n) ==
    IF first \/ changed THEN Append(held, n) ELSE held

\* useEvent in execution n of an instance that holds the subscriptions held:
\* subscribe on the first execution, and when a dependency changed
\* unsubscribe the old callback and subscribe the new one
UseEvent(held, first, changed, n) ==
    IF first THEN <<n>>
    ELSE IF changed THEN Append(SubSeq(held, 1, Len(held) - 1), n)
    ELSE held

\* Mount: the first execution subscribes the callback
MountEvent(p, e) ==
    IF e \in {"ItemUseTracker", "EventHandler"}
    THEN /\ useCount' = [useCount EXCEPT ![p] = <<0>>]
         /\ lastItem' = [lastItem EXCEPT ![p] = <<InitialItem>>]
         /\ subs' = [subs EXCEPT ![p] = UseEvent(<<>>, TRUE, FALSE, 1)]
    ELSE /\ useCount' = [useCount EXCEPT ![p] = <<>>]
         /\ lastItem' = [lastItem EXCEPT ![p] = <<>>]
         /\ subs' = [subs EXCEPT ![p] = <<>>]

\* Unmount: the callback is unsubscribed
UnmountEvent(p) ==
    /\ useCount' = [useCount EXCEPT ![p] = <<>>]
    /\ lastItem' = [lastItem EXCEPT ![p] = <<>>]
    /\ subs' = [subs EXCEPT ![p] = <<>>]

\* the bytes of a string in UTF-8
Utf8Length(value) == value.chars + value.wide

\* a serializer that writes the whole string
SerializeWhole(length, limit) == length

\* a string field of the protocol holds at most limit bytes of the string
SerializeString(length, limit) == IF length <= limit THEN length ELSE limit

\* the tree of the Label
SerializeLabel(root) ==
    [root |-> root, isOn |-> FALSE, content |-> <<"Text", "Image">>]

\* Serialize: the string props of the Label go into their fields
MountPayload(p, e) ==
    /\ payload' = [payload EXCEPT ![p] =
                      IF e \in LabelScreens
                      THEN <<[text |-> SerializeString(Utf8Length(textValue), TextLimit),
                              texture |-> SerializeString(texture, TextureLimit)]>>
                      ELSE <<>>]
    /\ UNCHANGED <<textValue, texture>>

UnmountPayload(p) ==
    /\ payload' = [payload EXCEPT ![p] = <<>>]
    /\ UNCHANGED <<textValue, texture>>

\* useState(0), useState('Player'), useState(false)
MultiInitial == [count |-> InitialCount, name |-> InitialName, isActive |-> FALSE]

\* the tree of MultiState: a Text for each of its states
SerializeMulti(root, st) ==
    [root |-> root, isOn |-> st.isActive, content |-> <<ToString(st.count), st.name>>]

MountMulti(p, e) ==
    multi' = [multi EXCEPT ![p] = IF e = "MultiState" THEN <<MultiInitial>> ELSE <<>>]

UnmountMulti(p) ==
    multi' = [multi EXCEPT ![p] = <<>>]

\* an effect that runs again without the cleanup of its previous run
RunWithoutCleanup(live, t) == IF t <= 0 THEN live ELSE Append(live, t)

\* the effect of the Countdown runs in an execution that got t from
\* useState, the intervals live being those of its earlier runs: the cleanup
\* of the previous run clears its interval, then the effect returns at once
\* for t <= 0, and otherwise starts an interval whose callback holds t
CountdownEffect(live, t) == IF t <= 0 THEN <<>> ELSE <<t>>

\* Mount: the effect runs after the first execution
MountCountdown(p, e) ==
    IF e = "Countdown"
    THEN /\ timeLeft' = [timeLeft EXCEPT ![p] = <<InitialTime>>]
         /\ intervals' = [intervals EXCEPT ![p] = CountdownEffect(<<>>, InitialTime)]
    ELSE /\ timeLeft' = [timeLeft EXCEPT ![p] = <<>>]
         /\ intervals' = [intervals EXCEPT ![p] = <<>>]

\* Unmount: the cleanup clears the interval
UnmountCountdown(p) ==
    /\ timeLeft' = [timeLeft EXCEPT ![p] = <<>>]
    /\ intervals' = [intervals EXCEPT ![p] = <<>>]

\* Mount: the effect is due after the first execution
MountLoop(p, e) ==
    /\ loopCount' = [loopCount EXCEPT ![p] = IF e \in LoopScreens THEN <<0>> ELSE <<>>]
    /\ effectDue' = [effectDue EXCEPT ![p] = e \in LoopScreens]

UnmountLoop(p) ==
    /\ loopCount' = [loopCount EXCEPT ![p] = <<>>]
    /\ effectDue' = [effectDue EXCEPT ![p] = FALSE]

\* ---------------------------------------------------------------- initial states
InitState ==
    /\ forms = [p \in Players |-> <<>>]
    /\ locked = [p \in Players |-> FALSE]
    /\ renderQueue = [p \in Players |-> <<>>]
    /\ isOn = [p \in Players |-> FALSE]
    /\ data = [p \in Players |-> InitialData]
    /\ resolved = [p \in Players |-> NoneResolved]
    /\ elapsed = [p \in Players |-> 0]
    /\ presented = [p \in Players |-> NoSnapshot]
    /\ flushes = [p \in Players |-> 0]
    /\ calls = [p \in Players |-> NoCalls]
    /\ count = [p \in Players |-> <<>>]
    /\ name = [p \in Players |-> <<>>]
    /\ lastExec = [p \in Players |-> NoExec]
    /\ ref = [p \in Players |-> <<>>]
    /\ runs = [p \in Players |-> <<>>]
    /\ cleanups = [p \in Players |-> <<>>]
    /\ updates = [p \in Players |-> 0]
    /\ reducerState = [p \in Players |-> <<>>]
    /\ dispatched = [p \in Players |-> <<>>]
    /\ flags = [p \in Players |-> FormInitial]
    /\ presses = [p \in Players |-> 0]
    /\ child = [p \in Players |-> <<>>]
    /\ hiddenTicks = [p \in Players |-> 0]
    /\ contextRead = [p \in Players |-> <<>>]
    /\ exitRequested = [p \in Players |-> FALSE]
    /\ isSaved = [p \in Players |-> FALSE]
    /\ useCount = [p \in Players |-> <<>>]
    /\ lastItem = [p \in Players |-> <<>>]
    /\ subs = [p \in Players |-> <<>>]
    /\ viewer = [p \in Players |-> <<>>]
    /\ payload = [p \in Players |-> <<>>]
    /\ multi = [p \in Players |-> <<>>]
    /\ timeLeft = [p \in Players |-> <<>>]
    /\ intervals = [p \in Players |-> <<>>]
    /\ loopCount = [p \in Players |-> <<>>]
    /\ effectDue = [p \in Players |-> FALSE]

\* trees with up to MaxBoundaries Suspense boundaries and every combination of
\* props; sibling boundaries are interchangeable, so one order of each is kept
Trees ==
    LET key(prop) == IF prop = <<>> THEN 0 ELSE prop[1]
    IN  {t \in UNION {[1..n -> TimeoutProps] : n \in 0..MaxBoundaries} :
            \A i, j \in 1..Len(t) : i < j => key(t[i]) <= key(t[j])}

\* one player, every screen, trees with at most one Suspense boundary
Init ==
    /\ online = {"p1"}
    /\ catalog = Screens
    /\ suspenseProps \in {t \in Trees : Len(t) <= 1}
    /\ providers = <<>>
    /\ textValue = NoText
    /\ texture = 0
    /\ InitState

\* one player, one screen, every tree
InitSuspense ==
    /\ online = {"p1"}
    /\ catalog = {"Screen1"}
    /\ suspenseProps \in Trees
    /\ providers = <<>>
    /\ textValue = NoText
    /\ texture = 0
    /\ InitState

\* several players with one screen, whose tree has one Suspense boundary
InitPlayers ==
    /\ online = Players
    /\ catalog = {"Screen1"}
    /\ suspenseProps \in {<<t>> : t \in TimeoutProps \ {<<>>}}
    /\ providers = <<>>
    /\ textValue = NoText
    /\ texture = 0
    /\ InitState

\* one player, the components with hooks, no Suspense boundary
InitHooks ==
    /\ online = {"p1"}
    /\ catalog = HookScreens
    /\ suspenseProps = <<>>
    /\ providers = <<>>
    /\ textValue = NoText
    /\ texture = 0
    /\ InitState

\* one player, the components that call exit()
InitExit ==
    /\ online = {"p1"}
    /\ catalog = ExitScreens
    /\ suspenseProps = <<>>
    /\ providers = <<>>
    /\ textValue = NoText
    /\ texture = 0
    /\ InitState

\* one player, the components with background callbacks
InitWidgets ==
    /\ online = {"p1"}
    /\ catalog = WidgetScreens
    /\ suspenseProps = <<>>
    /\ providers = <<>>
    /\ textValue = NoText
    /\ texture = 0
    /\ InitState

\* one player, the Form
InitForm ==
    /\ online = {"p1"}
    /\ catalog = {"Form"}
    /\ suspenseProps = <<>>
    /\ providers = <<>>
    /\ textValue = NoText
    /\ texture = 0
    /\ InitState

\* several players, the components whose effect sets its own dependency
InitLoop ==
    /\ online = Players
    /\ catalog = LoopScreens
    /\ suspenseProps = <<>>
    /\ providers = <<>>
    /\ textValue = NoText
    /\ texture = 0
    /\ InitState

\* one player, the App, every nesting of up to MaxDepth providers
InitContext ==
    /\ online = {"p1"}
    /\ catalog = AppScreens
    /\ suspenseProps = <<>>
    /\ providers \in UNION {[1..n -> ProviderNodes] : n \in 0..MaxDepth}
    /\ textValue = NoText
    /\ texture = 0
    /\ InitState

\* one player, the Label, every value of its string props
InitPayload ==
    /\ online = {"p1"}
    /\ catalog = LabelScreens
    /\ suspenseProps = <<>>
    /\ providers = <<>>
    /\ textValue \in TextValues
    /\ texture \in TexturePaths
    /\ InitState

\* ---------------------------------------------------------------- operations
\* a form shown before the tree was serialized
PresentBeforeSerialize(e) == NoSnapshot

\* the first snapshot of a component: its hooks have their initial values
InitialSnapshot(e) ==
    IF e = "Form"
    THEN SerializeForm(e, FormInitial)
    ELSE IF e = "ExitAfterSave"
    THEN SerializeSave(e, FALSE)
    ELSE IF e \in {"ItemUseTracker", "EventHandler"}
    THEN SerializeTracker(e, 0, InitialItem)
    ELSE IF e \in LabelScreens
    THEN SerializeLabel(e)
    ELSE IF e = "MultiState"
    THEN SerializeMulti(e, MultiInitial)
    ELSE IF e = "Countdown"
    THEN SerializeTimer(e, InitialTime)
    ELSE IF e \in LoopScreens
    THEN SerializeTimer(e, 0)
    ELSE IF e \in {"Timer", "Counter"}
         THEN SerializeTimer(e, InitialCount)
         ELSE Serialize(e, FALSE, InitialData, NoneResolved, 0)

\* Mount, Serialize, Present: the component functions are called, hooks are
\* initialized, the form is shown and the player is locked
Mount(p, e) ==
    /\ forms' = [forms EXCEPT ![p] = Append(@, e)]
    /\ locked' = [locked EXCEPT ![p] = TRUE]
    /\ isOn' = [isOn EXCEPT ![p] = FALSE]
    /\ data' = [data EXCEPT ![p] = InitialData]
    /\ resolved' = [resolved EXCEPT ![p] = NoneResolved]
    /\ calls' = [calls EXCEPT ![p] = NoCalls]
    /\ elapsed' = [elapsed EXCEPT ![p] = 0]
    /\ flushes' = [flushes EXCEPT ![p] = 0]
    /\ presented' = [presented EXCEPT ![p] = InitialSnapshot(e)]
    /\ viewer' = [viewer EXCEPT ![p] = <<UsePlayer(p)>>]
    /\ MountHooks(p, e)
    /\ MountReducer(p, e)
    /\ MountForm(p, e)
    /\ MountContext(p, e)
    /\ MountExit(p, e)
    /\ MountEvent(p, e)
    /\ MountPayload(p, e)
    /\ MountMulti(p, e)
    /\ MountCountdown(p, e)
    /\ MountLoop(p, e)

\* render() that shows the form without looking at the input lock
RenderUnlocked(p, e) ==
    /\ p \in online
    /\ e \in catalog
    /\ Mount(p, e)
    /\ UNCHANGED <<online, catalog, suspenseProps, renderQueue>>

\* render(player, element)
Render(p, e) ==
    /\ p \in online
    /\ e \in catalog
    /\ IF ~locked[p]
       THEN /\ Mount(p, e)
            /\ UNCHANGED renderQueue
       ELSE /\ \/ /\ Len(renderQueue[p]) < MaxQueue
                  /\ renderQueue' = [renderQueue EXCEPT ![p] = Append(@, e)]
               \/ UNCHANGED renderQueue
            /\ UNCHANGED <<forms, locked, isOn, data, resolved, calls,
                           elapsed, flushes, presented, viewer, componentVars>>
    /\ UNCHANGED <<online, catalog, suspenseProps>>

\* a queued render is taken from the queue once the player is unlocked
ProcessQueue(p) ==
    /\ ~locked[p]
    /\ renderQueue[p] # <<>>
    /\ renderQueue' = [renderQueue EXCEPT ![p] = Tail(@)]
    /\ Mount(p, Head(renderQueue[p]))
    /\ UNCHANGED <<online, catalog, suspenseProps>>

\* a press that re-presents the UI of every player
PressRefreshesAll(p) ==
    /\ Mounted(p)
    /\ isOn' = [isOn EXCEPT ![p] = ~@]
    /\ presented' = [q \in Players |->
                        IF Mounted(q)
                        THEN Serialize(Root(q), isOn'[q], data[q], resolved[q], elapsed[q])
                        ELSE presented[q]]
    /\ viewer' = [viewer EXCEPT ![p] = <<UsePlayer(p)>>]
    /\ UNCHANGED <<online, catalog, suspenseProps, forms, locked, renderQueue, data,
                   resolved, calls, elapsed, flushes, componentVars>>

\* the player presses the button of the shown form: onPress runs
\* (setIsOn(!isOn)) and the tree is serialized and presented again
Press(p) ==
    /\ Mounted(p)
    /\ isOn' = [isOn EXCEPT ![p] = ~@]
    /\ presented' = [presented EXCEPT ![p] =
                        Serialize(Root(p), ~isOn[p], data[p], resolved[p], elapsed[p])]
    /\ viewer' = [viewer EXCEPT ![p] = <<UsePlayer(p)>>]
    /\ UNCHANGED <<online, catalog, suspenseProps, forms, locked, renderQueue, data,
                   resolved, calls, elapsed, flushes, componentVars>>

\* Unmount: the form is gone, cleanup callbacks run, the instance and its
\* hook cells are released
Unmount(p) ==
    /\ forms' = [forms EXCEPT ![p] = <<>>]
    /\ presented' = [presented EXCEPT ![p] = NoSnapshot]
    /\ isOn' = [isOn EXCEPT ![p] = FALSE]
    /\ data' = [data EXCEPT ![p] = InitialData]
    /\ resolved' = [resolved EXCEPT ![p] = NoneResolved]
    /\ calls' = [calls EXCEPT ![p] = NoCalls]
    /\ elapsed' = [elapsed EXCEPT ![p] = 0]
    /\ flushes' = [flushes EXCEPT ![p] = 0]
    /\ viewer' = [viewer EXCEPT ![p] = <<>>]
    /\ UnmountHooks(p)
    /\ UnmountReducer(p)
    /\ UnmountForm(p)
    /\ UnmountContext(p)
    /\ UnmountEvent(p)
    /\ UnmountPayload(p)
    /\ UnmountMulti(p)
    /\ UnmountCountdown(p)
    /\ UnmountLoop(p)
    /\ UNCHANGED <<online, catalog, suspenseProps, renderQueue>>

\* a close that unmounts the tree but leaves the player locked
CloseKeepsLock(p) ==
    /\ Mounted(p)
    /\ Unmount(p)
    /\ UnmountExit(p)
    /\ UNCHANGED locked

\* the player closes or dismisses the form: unmount, the lock is released
Close(p) ==
    /\ Mounted(p)
    /\ Unmount(p)
    /\ UnmountExit(p)
    /\ locked' = [locked EXCEPT ![p] = FALSE]

\* exit() that takes the form from the screen and leaves the tree mounted
ExitHidesForm(p) ==
    /\ Mounted(p)
    /\ forms' = [forms EXCEPT ![p] = <<>>]
    /\ presented' = [presented EXCEPT ![p] = NoSnapshot]
    /\ locked' = [locked EXCEPT ![p] = FALSE]
    /\ exitRequested' = [exitRequested EXCEPT ![p] = TRUE]
    /\ UNCHANGED <<online, catalog, suspenseProps, renderQueue, isOn, data, resolved,
                   calls, elapsed, flushes, viewer, hookVars, reducerVars, formVars,
                   contextVars, isSaved, eventVars, payloadVars, multiVars,
                   countdownVars, loopVars>>

\* the function returned by useExit, called in a button callback: the UI of
\* the player is closed
Exit(p) ==
    /\ Mounted(p)
    /\ Unmount(p)
    /\ locked' = [locked EXCEPT ![p] = FALSE]
    /\ exitRequested' = [exitRequested EXCEPT ![p] = TRUE]
    /\ isSaved' = [isSaved EXCEPT ![p] = FALSE]

\* a checkpoint whenever one boundary stops waiting, others still pending or not
CheckpointPerBoundary(p, res, el) ==
    \E b \in TreeBoundaries :
        Pending(resolved[p], elapsed[p], b) /\ ~Pending(res, el, b)

\* the boundaries of p's tree finish waiting in this step: some boundary was
\* pending and, with the new hook state and tick count, none is
Checkpoint(p, res, el) ==
    AnyPending(resolved[p], elapsed[p]) /\ ~AnyPending(res, el)

\* a re-render on every state change, as React would do
RefreshAlways(p, dat, res, el) ==
    Serialize(Root(p), isOn[p], dat, res, el)

\* batch rendering: a new snapshot is presented only at such a checkpoint
Refresh(p, dat, res, el) ==
    IF Checkpoint(p, res, el)
    THEN Serialize(Root(p), isOn[p], dat, res, el)
    ELSE presented[p]

FlushCount(p, res, el) ==
    IF Checkpoint(p, res, el) THEN flushes[p] + 1 ELSE flushes[p]

\* any setter call counts as a resolution
ResolvesOnAnySet(old, v) == TRUE

\* a child resolves when its state goes from the default to another value
Resolves(old, v) == old = DefaultValue /\ v # DefaultValue

\* background logic (a promise or timer callback) calls the setter of the
\* child of boundary b
SetData(p, b, v) ==
    /\ Mounted(p)
    /\ b \in TreeBoundaries
    /\ data' = [data EXCEPT ![p][b] = v]
    /\ resolved' = [resolved EXCEPT ![p][b] = @ \/ Resolves(data[p][b], v)]
    /\ calls' = [calls EXCEPT ![p][b] =
                    IF v # DefaultValue THEN "other"
                    ELSE IF @ = "none" THEN "default" ELSE @]
    /\ presented' = [presented EXCEPT ![p] = Refresh(p, data'[p], resolved'[p], elapsed[p])]
    /\ flushes' = [flushes EXCEPT ![p] = FlushCount(p, resolved'[p], elapsed[p])]
    /\ viewer' = [viewer EXCEPT ![p] = <<UsePlayer(p)>>]
    /\ UNCHANGED <<online, catalog, suspenseProps, forms, locked, renderQueue, isOn,
                   elapsed, componentVars>>

\* p has a tree whose boundaries are still waiting
Waiting(p) == Mounted(p) /\ AnyPending(resolved[p], elapsed[p])

\* one tick of the game loop: every waiting boundary has waited one tick more
Tick ==
    /\ \E p \in Players : Waiting(p)
    /\ elapsed' = [p \in Players |-> IF Waiting(p) THEN elapsed[p] + 1 ELSE elapsed[p]]
    /\ presented' = [p \in Players |->
                        IF Waiting(p)
                        THEN Refresh(p, data[p], resolved[p], elapsed'[p])
                        ELSE presented[p]]
    /\ flushes' = [p \in Players |->
                        IF Waiting(p)
                        THEN FlushCount(p, resolved[p], elapsed'[p])
                        ELSE flushes[p]]
    /\ UNCHANGED <<online, catalog, suspenseProps, forms, locked, renderQueue, isOn,
                   data, resolved, calls, viewer, componentVars>>

\* ---------------------------------------------------------------- Timer
oldVars == <<online, catalog, suspenseProps, forms, locked, renderQueue, isOn, data,
             resolved, elapsed, flushes, calls, viewer>>

\* executions of one instance are followed up to MaxRuns
CanExecute(p) ==
    /\ Root(p) = "Timer"
    /\ \A i \in DOMAIN runs[p] : runs[p][i] < MaxRuns

\* the interval callback made by the mount effect: setCount(c => c + 1); its
\* closure holds the count of the first execution
TimerTick(p) ==
    /\ CanExecute(p)
    /\ Execute(p, Root(p), <<FunctionalUpdate(count[p][1], InitialCount)>>, name[p])
    /\ updates' = [updates EXCEPT ![p] = @ + 1]
    /\ UNCHANGED <<oldVars, presented, reducerVars, formVars, contextVars, appVars>>

\* the button of the shown form: onPress calls setCount(c => c + 1), and the
\* tree is serialized and presented again
PressIncrement(p) ==
    /\ CanExecute(p)
    /\ Execute(p, Root(p), <<FunctionalUpdate(count[p][1], lastExec[p].count)>>, name[p])
    /\ updates' = [updates EXCEPT ![p] = @ + 1]
    /\ presented' = [presented EXCEPT ![p] = SerializeTimer(Root(p), count'[p][1])]
    /\ UNCHANGED <<oldVars, reducerVars, formVars, contextVars, appVars>>

\* an event callback calls setName(v)
SetName(p, v) ==
    /\ CanExecute(p)
    /\ Execute(p, Root(p), count[p], <<v>>)
    /\ UNCHANGED <<oldVars, presented, updates, reducerVars, formVars, contextVars, appVars>>

\* a callback assigns ref.current = v
SetRef(p, v) ==
    /\ Root(p) = "Timer"
    /\ ref' = [ref EXCEPT ![p] = <<[@[1] EXCEPT !.current = v]>>]
    /\ UNCHANGED <<oldVars, presented, count, name, lastExec, runs, cleanups, updates,
                   reducerVars, formVars, contextVars, appVars>>

\* ---------------------------------------------------------------- Counter
\* a button of the Counter: onPress calls dispatch({ type: a }), and the tree
\* is serialized and presented again
Dispatch(p, a) ==
    /\ Root(p) = "Counter"
    /\ Len(dispatched[p]) < MaxDispatch
    /\ reducerState' = [reducerState EXCEPT ![p] = <<Reducer(@[1], a)>>]
    /\ dispatched' = [dispatched EXCEPT ![p] = Append(@, a)]
    /\ presented' = [presented EXCEPT ![p] = SerializeTimer(Root(p), reducerState'[p][1])]
    /\ UNCHANGED <<oldVars, hookVars, formVars, contextVars, appVars>>

\* ---------------------------------------------------------------- Form
\* a settings button of the Form: onPress flips the state behind one prop;
\* the tree is executed, serialized and presented again, and a Child that is
\* no longer rendered loses its instance
PressToggle(p, f) ==
    /\ Root(p) = "Form"
    /\ flags' = [flags EXCEPT ![p][f] = ~@]
    /\ child' = [child EXCEPT ![p] =
                    IF ~ChildExists(flags'[p]) THEN <<>>
                    ELSE IF @ = <<>> THEN <<0>> ELSE @]
    /\ hiddenTicks' = [hiddenTicks EXCEPT ![p] = IF child'[p] = <<>> THEN 0 ELSE @]
    /\ presented' = [presented EXCEPT ![p] = SerializeForm(Root(p), flags'[p])]
    /\ UNCHANGED <<oldVars, hookVars, reducerVars, contextVars, appVars, presses>>

\* a press that is matched against the tree as it is now, whatever the
\* player was shown
PressButtonLive(p) ==
    /\ Root(p) = "Form"
    /\ ButtonExists(flags[p])
    /\ IsVisible(flags[p], "Button")
    /\ IsEnabled(flags[p], "Button")
    /\ presses[p] < MaxPresses
    /\ presses' = [presses EXCEPT ![p] = @ + 1]
    /\ presented' = [presented EXCEPT ![p] = SerializeForm(Root(p), flags[p])]
    /\ UNCHANGED <<oldVars, hookVars, reducerVars, contextVars, appVars, flags, child,
                   hiddenTicks>>

\* the player presses the Button inside the Panel: possible when the form
\* on screen shows it enabled; onPress runs unless the Button has been
\* removed, hidden or disabled since, and the tree is presented again
PressButton(p) ==
    /\ Root(p) = "Form"
    /\ presented[p].content[1] = "Button"
    /\ presses[p] < MaxPresses
    /\ presses' = [presses EXCEPT ![p] =
                      IF /\ ButtonExists(flags[p])
                         /\ IsVisible(flags[p], "Button")
                         /\ IsEnabled(flags[p], "Button")
                      THEN @ + 1 ELSE @]
    /\ presented' = [presented EXCEPT ![p] = SerializeForm(Root(p), flags[p])]
    /\ UNCHANGED <<oldVars, hookVars, reducerVars, contextVars, appVars, flags, child,
                   hiddenTicks>>

\* logic running in the background sets a state behind a prop of the Button:
\* the tree changes, the presented snapshot does not
SetFlagInBackground(p, f) ==
    /\ Root(p) = "Form"
    /\ flags' = [flags EXCEPT ![p][f] = ~@]
    /\ UNCHANGED <<oldVars, presented, hookVars, reducerVars, contextVars, appVars,
                   presses, child, hiddenTicks>>

\* the interval callback of the Child instance: setTicks(t => t + 1)
ChildTick(p) ==
    /\ Root(p) = "Form"
    /\ child[p] # <<>>
    /\ child[p][1] < MaxTicks
    /\ child' = [child EXCEPT ![p] = <<@[1] + 1>>]
    /\ hiddenTicks' = [hiddenTicks EXCEPT ![p] =
                            IF IsVisible(flags[p], "Child") THEN @ ELSE @ + 1]
    /\ UNCHANGED <<oldVars, hookVars, reducerVars, contextVars, appVars, presented, flags,
                   presses>>

\* ---------------------------------------------------------------- useExit
\* the CloseButton in the Timer's tree: onPress={exit}
PressExit(p) ==
    /\ Root(p) = "Timer"
    /\ Exit(p)

\* the button of ExitAfterSave: onPress calls setIsSaved(true); the component
\* is executed again and its effect, whose dependency isSaved changed, calls
\* exit(): outside a button callback, where one page has it close the UI
\* and the other has it work in button callbacks only
PressSave(p) ==
    /\ Root(p) = "ExitAfterSave"
    /\ IF isSaved[p]
       THEN /\ presented' = [presented EXCEPT ![p] = SerializeSave(Root(p), TRUE)]
            /\ UNCHANGED <<oldVars, hookVars, reducerVars, formVars, contextVars, exitVars,
                           eventVars, payloadVars, multiVars,
                   countdownVars, loopVars>>
       ELSE \/ Exit(p)
            \/ /\ isSaved' = [isSaved EXCEPT ![p] = TRUE]
               /\ exitRequested' = [exitRequested EXCEPT ![p] = TRUE]
               /\ presented' = [presented EXCEPT ![p] = SerializeSave(Root(p), TRUE)]
               /\ UNCHANGED <<oldVars, hookVars, reducerVars, formVars, contextVars,
                              eventVars, payloadVars, multiVars,
                   countdownVars, loopVars>>

\* ---------------------------------------------------------------- useEvent
\* the signal emits an event: every subscribed callback is called
\* (setUseCount(prev => prev + 1), setLastItem(item)), and each instance whose
\* state was set is executed again
Emit(item) ==
    /\ \E p \in Players : subs[p] # <<>>
    /\ \A p \in Players : subs[p] # <<>> => useCount[p] # <<>>
    /\ \A p \in Players :
          useCount[p] # <<>> => useCount[p][1] + Len(subs[p]) <= MaxEvents
    /\ useCount' = [p \in Players |->
                        IF subs[p] = <<>> THEN useCount[p]
                        ELSE <<useCount[p][1] + Len(subs[p])>>]
    /\ lastItem' = [p \in Players |->
                        IF subs[p] = <<>> THEN lastItem[p] ELSE <<item>>]
    /\ subs' = [p \in Players |->
                    IF subs[p] = <<>> THEN subs[p]
                    ELSE UseEvent(subs[p], FALSE, DepsChanged(Root(p)),
                                  useCount'[p][1] + 1)]
    /\ UNCHANGED <<oldVars, presented, hookVars, reducerVars, formVars, contextVars,
                   exitVars, payloadVars, multiVars,
                   countdownVars, loopVars>>

\* ---------------------------------------------------------------- MultiState
\* a press whose snapshot is taken before the setters of the callback apply
PressUpdateShowsOld(p) ==
    /\ Root(p) = "MultiState"
    /\ multi[p][1].count < MaxPresses
    /\ multi' = [multi EXCEPT ![p] =
                    <<[@[1] EXCEPT !.count = @ + 1, !.isActive = TRUE]>>]
    /\ presented' = [presented EXCEPT ![p] = SerializeMulti(Root(p), multi[p][1])]
    /\ UNCHANGED <<oldVars, hookVars, reducerVars, formVars, contextVars, exitVars,
                   eventVars, payloadVars,
                   countdownVars, loopVars>>

\* the button of MultiState: onPress calls setCount(count + 1) and
\* setIsActive(true); the tree is executed, serialized and presented again
PressUpdate(p) ==
    /\ Root(p) = "MultiState"
    /\ multi[p][1].count < MaxPresses
    /\ multi' = [multi EXCEPT ![p] =
                    <<[@[1] EXCEPT !.count = @ + 1, !.isActive = TRUE]>>]
    /\ presented' = [presented EXCEPT ![p] = SerializeMulti(Root(p), multi'[p][1])]
    /\ UNCHANGED <<oldVars, hookVars, reducerVars, formVars, contextVars, exitVars,
                   eventVars, payloadVars,
                   countdownVars, loopVars>>

\* logic running in the background calls setName(v): the state changes, the
\* presented snapshot does not
SetNameInBackground(p, v) ==
    /\ Root(p) = "MultiState"
    /\ multi' = [multi EXCEPT ![p] = <<[@[1] EXCEPT !.name = v]>>]
    /\ UNCHANGED <<oldVars, presented, hookVars, reducerVars, formVars, contextVars,
                   exitVars, eventVars, payloadVars,
                   countdownVars, loopVars>>

\* ---------------------------------------------------------------- Countdown
\* interval i of p's Countdown fires: its callback calls setTimeLeft with the
\* timeLeft it holds, minus 1; when that changes the state the component is
\* executed again and its effect, whose dependency changed, runs again
IntervalRun(p, i) ==
    /\ Root(p) = "Countdown"
    /\ i \in DOMAIN intervals[p]
    /\ LET t == intervals[p][i] - 1
       IN  /\ timeLeft' = [timeLeft EXCEPT ![p] = <<t>>]
           /\ intervals' = [intervals EXCEPT ![p] =
                               IF <<t>> = timeLeft[p] THEN @ ELSE CountdownEffect(@, t)]
    /\ UNCHANGED <<oldVars, presented, hookVars, reducerVars, formVars, contextVars,
                   exitVars, eventVars, payloadVars, multiVars, loopVars>>

\* ---------------------------------------------------------------- effect loops
\* the effect without its condition
AlwaysUpdates(e, c) == TRUE

\* does the effect call setCount(count + 1) when it runs with count = c
EffectUpdates(e, c) == e = "UnguardedLoop" \/ c < LoopLimit

\* the effect that is due runs: when it calls setCount(count + 1) the
\* component is executed again and the effect, whose dependency count
\* changed, is due again; when it calls nothing, nothing is left to run;
\* the runs of one instance are followed up to MaxLoop
RunEffect(p) ==
    /\ Root(p) \in LoopScreens
    /\ effectDue[p]
    /\ loopCount[p][1] < MaxLoop
    /\ IF EffectUpdates(Root(p), loopCount[p][1])
       THEN /\ loopCount' = [loopCount EXCEPT ![p] = <<@[1] + 1>>]
            /\ UNCHANGED effectDue
       ELSE /\ effectDue' = [effectDue EXCEPT ![p] = FALSE]
            /\ UNCHANGED loopCount
    /\ UNCHANGED <<oldVars, presented, hookVars, reducerVars, formVars, contextVars,
                   exitVars, eventVars, payloadVars, multiVars, countdownVars>>

Next ==
    \/ \E p \in Players, e \in Screens : Render(p, e)
    \/ \E p \in Players : ProcessQueue(p)
    \/ \E p \in Players : Press(p)
    \/ \E p \in Players : Close(p)
    \/ \E p \in Players, b \in TreeBoundaries, v \in Values : SetData(p, b, v)
    \/ Tick

Spec == Init /\ [][Next]_vars

SpecSuspense == InitSuspense /\ [][Next]_vars

SpecPlayers == InitPlayers /\ [][Next]_vars

\* the operations of the components with hooks
NextHooks ==
    \/ \E p \in Players, e \in HookScreens : Render(p, e)
    \/ \E p \in Players : ProcessQueue(p)
    \/ \E p \in Players : Close(p)
    \/ \E p \in Players : TimerTick(p)
    \/ \E p \in Players : PressIncrement(p)
    \/ \E p \in Players, v \in Names : SetName(p, v)
    \/ \E p \in Players, v \in RefValues : SetRef(p, v)
    \/ \E p \in Players, a \in ActionTypes : Dispatch(p, a)
    \/ \E p \in Players, f \in FlagNames : PressToggle(p, f)
    \/ \E p \in Players : PressButton(p)
    \/ \E p \in Players : ChildTick(p)

SpecHooks == InitHooks /\ [][NextHooks]_vars

\* the operations of the components that call exit()
NextExit ==
    \/ \E p \in Players, e \in ExitScreens : Render(p, e)
    \/ \E p \in Players : ProcessQueue(p)
    \/ \E p \in Players : Close(p)
    \/ \E p \in Players : TimerTick(p)
    \/ \E p \in Players : PressIncrement(p)
    \/ \E p \in Players, v \in Names : SetName(p, v)
    \/ \E p \in Players : PressExit(p)
    \/ \E p \in Players : PressSave(p)

SpecExit == InitExit /\ [][NextExit]_vars

\* the operations of the components with background callbacks
NextWidgets ==
    \/ \E p \in Players, e \in WidgetScreens : Render(p, e)
    \/ \E p \in Players : ProcessQueue(p)
    \/ \E p \in Players : Close(p)
    \/ \E item \in Items : Emit(item)
    \/ \E p \in Players : PressUpdate(p)
    \/ \E p \in Players, v \in Names : SetNameInBackground(p, v)
    \/ \E p \in Players : \E i \in DOMAIN intervals[p] : IntervalRun(p, i)

SpecWidgets == InitWidgets /\ [][NextWidgets]_vars

\* the operations of the Form, with the background logic that sets the
\* states behind the props of its Button
NextForm ==
    \/ \E p \in Players : Render(p, "Form")
    \/ \E p \in Players : ProcessQueue(p)
    \/ \E p \in Players : Close(p)
    \/ \E p \in Players, f \in FlagNames : PressToggle(p, f)
    \/ \E p \in Players : PressButton(p)
    \/ \E p \in Players : ChildTick(p)
    \/ \E p \in Players, f \in BackgroundFlags : SetFlagInBackground(p, f)

SpecForm == InitForm /\ [][NextForm]_vars

\* the operations of the components of LoopScreens; an effect that is due
\* does run
NextLoop ==
    \/ \E p \in Players, e \in LoopScreens : Render(p, e)
    \/ \E p \in Players : ProcessQueue(p)
    \/ \E p \in Players : Close(p)
    \/ \E p \in Players : RunEffect(p)

SpecLoop ==
    /\ InitLoop
    /\ [][NextLoop]_vars
    /\ \A p \in Players : WF_vars(RunEffect(p))

\* the operations of the App, whose components have no callbacks
NextContext ==
    \/ \E p \in Players, e \in AppScreens : Render(p, e)
    \/ \E p \in Players : ProcessQueue(p)
    \/ \E p \in Players : Close(p)

SpecContext == InitContext /\ [][NextContext]_vars

\* the operations of the Label, whose components have no callbacks
NextPayload ==
    \/ \E p \in Players, e \in LabelScreens : Render(p, e)
    \/ \E p \in Players : ProcessQueue(p)
    \/ \E p \in Players : Close(p)

SpecPayload == InitPayload /\ [][NextPayload]_vars

\* ---------------------------------------------------------------- claims

\* C1 (snapshot rendering): the snapshot presented to a player changes only
\* when that player's UI is opened or closed, when that player presses a
\* button, or when a tick or a state update ends the wait of the last pending
\* Suspense boundary of the tree; every other step, whatever hook state it
\* changes in the background, leaves the presented snapshot as it was.
SnapshotRendering ==
    [][\A p \in Players :
         presented'[p] # presented[p] =>
            \/ Press(p)
            \/ Close(p)
            \/ ProcessQueue(p)
            \/ \E e \in Screens : Render(p, e)
            \/ /\ Tick \/ \E b \in TreeBoundaries, v \in Values : SetData(p, b, v)
               /\ AnyPending(resolved[p], elapsed[p])
               /\ ~AnyPending(resolved'[p], elapsed'[p])]_vars

\* a background setter call has changed the state of a child whose boundary
\* is presented with its children, and the snapshot still shows the old value
SnapshotIsStale ==
    \E p \in Players : \E b \in TreeBoundaries :
        /\ forms[p] # <<>>
        /\ presented[p].content[b] # "fallback"
        /\ presented[p].content[b] # data[p][b]

LockRelease ==
    [][\A p \in Players :
         /\ (locked'[p] <=> forms'[p] # <<>>)
         /\ Close(p) => (~locked'[p] /\ forms'[p] = <<>> /\ presented'[p] = NoSnapshot)
         /\ \A e \in Screens :
              (forms[p] = <<>> /\ Render(p, e)) =>
                 (forms'[p] = <<e>> /\ presented'[p].root = e)]_vars

\* the player closed the form while a render() call was waiting in the
\* queue: no form is shown and the lock is free
ClosedAndUnlocked ==
    \E p \in Players :
        /\ ~locked[p]
        /\ forms[p] = <<>>
        /\ renderQueue[p] # <<>>

\* C4 (last render wins), as claimed: after any render(p, e) the UI of p is e.
LastRenderWins ==
    [][\A p \in Players : \A e \in Screens :
         Render(p, e) => forms'[p] = <<e>>]_vars

ResolutionRule ==
    \A p \in Players : \A b \in TreeBoundaries :
        LET limit == IF suspenseProps[b] = <<>> THEN 20 ELSE suspenseProps[b][1]
        IN  /\ resolved[p][b] <=> calls[p][b] = "other"
            /\ ( /\ forms[p] # <<>>
                 /\ calls[p][b] # "other"
                 /\ presented[p].content[b] # "fallback" ) => elapsed[p] >= limit

\* the setter of a child was called, but only with the default value: the
\* child is not resolved and its boundary ended by timeout
SetToDefaultOnly ==
    \E p \in Players : \E b \in TreeBoundaries :
        /\ forms[p] # <<>>
        /\ calls[p][b] = "default"
        /\ ~resolved[p][b]
        /\ elapsed[p] >= AwaitTimeout(suspenseProps[b])
        /\ presented[p].content[b] = DefaultValue

\* C8 (batch rendering): a tick or state update changes the presented
\* snapshot only when it leaves no boundary of the tree pending, and that
\* happens exactly once per shown UI: the count of such snapshots is 0 while a
\* boundary is pending and 1 from the moment the last one stops waiting.
BatchRendering ==
    [][\A p \in Players :
         LET pendingAfter == AnyPending(resolved'[p], elapsed'[p])
             suspenseStep == Tick \/ \E b \in TreeBoundaries, v \in Values : SetData(p, b, v)
         IN  forms'[p] # <<>> =>
               /\ (presented'[p] # presented[p] /\ suspenseStep) =>
                     (~pendingAfter /\ flushes'[p] = flushes[p] + 1)
               /\ flushes'[p] # flushes[p] =>
                     (presented'[p] # presented[p] /\ suspenseStep)
               /\ flushes'[p] = IF TreeBoundaries # {} /\ ~pendingAfter THEN 1 ELSE 0]_vars

\* two boundaries, the first resolved by its child, the second ended by its
\* timeout, and one snapshot was presented for both
BothBoundariesDone ==
    \E p \in Players :
        /\ Len(suspenseProps) = 2
        /\ resolved[p][1] /\ ~resolved[p][2]
        /\ elapsed[p] > 1
        /\ flushes[p] = 1
        /\ presented[p].content[1] = "loaded"
        /\ presented[p].content[2] = DefaultValue

\* C9 (independent UIs): a render, queue step, press, close or state update of
\* one player leaves the forms, lock, queue, hook state, waiting time and
\* presented snapshot of every other player unchanged.
IndependentPlayers ==
    [][\A p, q \in Players :
         ( /\ q # p
           /\ \/ Press(p)
              \/ Close(p)
              \/ ProcessQueue(p)
              \/ \E e \in Screens : Render(p, e)
              \/ \E b \in TreeBoundaries, v \in Values : SetData(p, b, v) ) =>
            /\ presented'[q] = presented[q]
            /\ forms'[q] = forms[q]
            /\ locked'[q] = locked[q]
            /\ renderQueue'[q] = renderQueue[q]
            /\ isOn'[q] = isOn[q]
            /\ data'[q] = data[q]
            /\ resolved'[q] = resolved[q]
            /\ elapsed'[q] = elapsed[q]]_vars

\* both players have a form shown, one has pressed a button (its snapshot
\* shows the toggled state) and the other's snapshot is behind its hook state
PressBesideStaleSnapshot ==
    \E p, q \in Players : \E b \in TreeBoundaries :
        /\ q # p
        /\ forms[p] # <<>> /\ presented[p].isOn
        /\ forms[q] # <<>>
        /\ presented[q].content[b] # "fallback"
        /\ presented[q].content[b] # data[q][b]

\* C11 (mount effect): an effect with an empty dependency array has run
\* exactly once for the instance, whatever the number of executions of the
\* instance, and that one run is the one after the first execution.
MountEffectOnce ==
    \A p \in Players : \A i \in DOMAIN runs[p] :
        (TimerEffects[i].given /\ TimerEffects[i].deps = {}) => runs[p][i] = 1

\* the instance has been executed four times and its mount effect ran once
ReExecutedThrice ==
    \E p \in Players :
        /\ forms[p] = <<"Timer">>
        /\ runs[p][1] = 4
        /\ runs[p][2] = 1

\* C12 (dependency rule): after an execution of a component, an effect has
\* run exactly when its dependency array is omitted, or the execution is the
\* first one, or a listed state differs from its value at the previous
\* execution; in every other case it has not run.
DependencyRule ==
    [][\A p \in Players :
         LET first == forms[p] = <<>> /\ forms'[p] # <<>>
             executed == \/ first
                         \/ TimerTick(p)
                         \/ PressIncrement(p)
                         \/ \E v \in Names : SetName(p, v)
             differs(d) == IF d = "count" THEN count'[p] # count[p]
                                          ELSE name'[p] # name[p]
             before(i) == IF first THEN 0 ELSE runs[p][i]
             due(i) == \/ ~TimerEffects[i].given
                       \/ first
                       \/ \E d \in TimerEffects[i].deps : differs(d)
         IN  executed =>
               \A i \in DOMAIN runs'[p] :
                  runs'[p][i] = IF due(i) THEN before(i) + 1 ELSE before(i)]_vars

\* three executions: the mount, one that changed the count, and one that
\* changed neither the count nor the name
ExecutedWithDepsUnchanged ==
    \E p \in Players :
        /\ forms[p] = <<"Timer">>
        /\ runs[p] = <<3, 1, 2, 1>>

\* C13 (unmount cleanup): a close calls, once, the cleanup of every effect
\* that has run and was not cleaned up since, so that afterwards every effect
\* with a cleanup has as many cleanup calls as runs; while no UI is shown no
\* effect and no cleanup runs.
UnmountCleanup ==
    [][\A p \in Players :
         LET owed(i) == TimerEffects[i].cleanup /\ runs[p][i] > cleanups[p][i]
         IN  /\ Close(p) =>
                   /\ runs'[p] = runs[p]
                   /\ \A i \in DOMAIN runs[p] :
                        /\ cleanups'[p][i] = cleanups[p][i] + IF owed(i) THEN 1 ELSE 0
                        /\ TimerEffects[i].cleanup => cleanups'[p][i] = runs'[p][i]
             /\ (forms[p] = <<>> /\ forms'[p] = <<>>) =>
                   (runs'[p] = runs[p] /\ cleanups'[p] = cleanups[p])
             /\ forms'[p] # <<>> =>
                   \A i \in DOMAIN runs'[p] :
                        TimerEffects[i].cleanup => runs'[p][i] = cleanups'[p][i] + 1]_vars

\* the UI was closed after the count effect had run three times: its cleanup
\* was called three times, that of the mount effect once
ClosedAfterReruns ==
    \E p \in Players :
        /\ forms[p] = <<>>
        /\ runs[p] # <<>>
        /\ runs[p][3] = 3 /\ cleanups[p][3] = 3
        /\ runs[p][2] = 1 /\ cleanups[p][2] = 1

NoLostUpdate ==
    \A p \in Players :
        forms[p] = <<"Timer">> => count[p] = <<0 + updates[p]>>

\* timer, button, timer: the button was pressed at 1 (the snapshot shows 2)
\* and a timer update came before and after it
UpdatesInterleaved ==
    \E p \in Players :
        /\ forms[p] = <<"Timer">>
        /\ updates[p] = 3
        /\ presented[p].content = <<"2">>

\* C17 (ref): the executions of an instance get the same ref object, whose
\* current value is the one last assigned; an assignment to ref.current
\* executes nothing (no effect runs, the useState values are not read again),
\* while a useState setter executes the component.
RefPersists ==
    [][\A p \in Players :
         /\ (forms[p] = <<"Timer">> /\ forms'[p] = <<"Timer">>) =>
               /\ ref'[p][1].id = ref[p][1].id
               /\ \/ ref'[p][1].current = ref[p][1].current
                  \/ \E v \in RefValues : SetRef(p, v) /\ ref'[p][1].current = v
         /\ \A v \in RefValues : SetRef(p, v) =>
               (runs'[p] = runs[p] /\ cleanups'[p] = cleanups[p] /\ lastExec'[p] = lastExec[p])
         /\ \A v \in Names : SetName(p, v) => runs'[p][1] = runs[p][1] + 1]_vars

\* ref.current was assigned and the instance has been executed again since
\* the mount
RefAssignedAndReExecuted ==
    \E p \in Players :
        /\ forms[p] = <<"Timer">>
        /\ ref[p][1].current = "run1"
        /\ runs[p][1] >= 3

\* C16 (reducer): the state of useReducer is the reducer applied to the
\* initial state and the dispatched actions in dispatch order: the increments
\* minus the decrements dispatched after the last reset; an action the
\* reducer answers with the same state changes nothing.
ReducerFold ==
    \A p \in Players :
        LET acts == dispatched[p]
            resets == {i \in DOMAIN acts : acts[i] = "reset"}
            since == {i \in DOMAIN acts : \A r \in resets : r < i}
            ups == Cardinality({i \in since : acts[i] = "increment"})
            downs == Cardinality({i \in since : acts[i] = "decrement"})
        IN  forms[p] = <<"Counter">> => reducerState[p] = <<0 + ups - downs>>

\* an increment, an action the reducer does not know, a reset and a decrement
\* were dispatched in this order
DispatchedFour ==
    \E p \in Players :
        /\ forms[p] = <<"Counter">>
        /\ dispatched[p] = <<"increment", "other", "reset", "decrement">>
        /\ reducerState[p] = <<-1>>

\* C19 (enabled cascade): the onPress of the Button is invoked only while
\* the Button and the Panel above it are both enabled, and what is presented
\* shows neither the Button nor the Child while the Panel is not visible.
EnabledCascade ==
    [][\A p \in Players :
         /\ presses'[p] > presses[p] =>
               (flags[p].panelEnabled /\ flags[p].buttonEnabled)
         /\ (forms'[p] = <<"Form">> /\ ~flags'[p].panelVisible) =>
               /\ presented'[p].content[1] = "hidden"
               /\ presented'[p].content[2] \in {"hidden", "none"}]_vars

\* the Button was pressed once, then the Panel was disabled: the Button's
\* own enabled prop is still true and it is presented as disabled
DisabledByAncestor ==
    \E p \in Players :
        /\ forms[p] = <<"Form">>
        /\ presses[p] = 1
        /\ ~flags[p].panelEnabled /\ flags[p].buttonEnabled
        /\ presented[p].content[1] = "disabled"

\* C20 (hidden or removed): a step that hides or shows the Child or its
\* Panel keeps the Child's instance and state, and a hidden Child is presented
\* as hidden while its interval goes on; a Child that is not rendered has no
\* instance, is not in the presented UI, its state moves no more, and it
\* starts from its initial state when rendered again.
HiddenKeepsInstance ==
    [][\A p \in Players :
         forms'[p] = <<"Form">> =>
            /\ (child'[p] # <<>>) <=> flags'[p].showChild
            /\ (forms[p] = <<"Form">> /\ flags[p].showChild /\ flags'[p].showChild) =>
                  \/ child'[p] = child[p]
                  \/ ChildTick(p) /\ child'[p] = <<child[p][1] + 1>>
            /\ (forms[p] = <<"Form">> /\ ~flags[p].showChild /\ flags'[p].showChild) =>
                  child'[p] = <<0>>
            /\ presented'[p].content[2] =
                  IF ~flags'[p].showChild THEN "none"
                  ELSE IF flags'[p].panelVisible /\ flags'[p].childVisible
                       THEN "Child" ELSE "hidden"
            /\ hiddenTicks'[p] # hiddenTicks[p] =>
                  \/ child'[p] = <<>>
                  \/ ChildTick(p) /\ ~(flags[p].panelVisible /\ flags[p].childVisible)]_vars

\* the Child was hidden with visible={false}, is presented as hidden, and
\* its interval has run twice since
TickedWhileHidden ==
    \E p \in Players :
        /\ forms[p] = <<"Form">>
        /\ ~flags[p].childVisible
        /\ presented[p].content[2] = "hidden"
        /\ child[p] = <<2>>
        /\ hiddenTicks[p] = 2

\* C18 (nearest provider): a Display gets from useContext the value of the
\* innermost provider of that context among the providers above it, and the
\* context's defaultValue (0 for CountContext, 10 for ThemeContext) when none
\* of them provides it.
NearestProvider ==
    \A p \in Players :
        forms[p] = <<"App">> =>
            \A k \in 1..(Len(providers) + 1) : \A c \in Contexts :
                LET above == {i \in 1..(k - 1) : providers[i].context = c}
                    innermost == CHOOSE i \in above : \A j \in above : j <= i
                IN  contextRead[p][k][c] =
                        IF above = {}
                        THEN (IF c = "CountContext" THEN 0 ELSE 10)
                        ELSE providers[innermost].value

\* two providers of CountContext with different values around one of
\* ThemeContext: the innermost Display reads the inner count, the Display
\* between them the outer one, the Display above them all the default
NestedProvidersRead ==
    \E p \in Players :
        /\ forms[p] = <<"App">>
        /\ Len(providers) = 3
        /\ providers[1] = [context |-> "CountContext", value |-> 1]
        /\ providers[2].context = "ThemeContext"
        /\ providers[3] = [context |-> "CountContext", value |-> 2]
        /\ contextRead[p][4]["CountContext"] = 2
        /\ contextRead[p][3]["CountContext"] = 1
        /\ contextRead[p][1]["CountContext"] = 0
        /\ contextRead[p][2]["ThemeContext"] = 10

\* C21 (useExit): the function returned by useExit, called in the callback of
\* a button, closes the UI of the player: no form and no snapshot is shown
\* any more, the lock is released, the instance is gone, and every effect
\* that returned a cleanup has had it called for each of its runs.
ExitCloses ==
    [][\A p \in Players :
         PressExit(p) =>
            /\ forms'[p] = <<>>
            /\ presented'[p] = NoSnapshot
            /\ ~locked'[p]
            /\ count'[p] = <<>>
            /\ runs'[p] = runs[p]
            /\ \A i \in DOMAIN runs[p] :
                  TimerEffects[i].cleanup => cleanups'[p][i] = runs[p][i]]_vars

\* exit() was called after the count effect had run twice: nothing is shown,
\* the player is unlocked and both runs were cleaned up
ExitedAfterRerun ==
    \E p \in Players :
        /\ exitRequested[p]
        /\ forms[p] = <<>> /\ ~locked[p]
        /\ runs[p] # <<>>
        /\ runs[p][3] = 2 /\ cleanups[p][3] = 2
        /\ runs[p][2] = 1 /\ cleanups[p][2] = 1

\* C22 (useExit in an effect), as claimed: once the press has set isSaved,
\* the effect's exit() call closes the UI without another press.
ExitInEffectCloses ==
    [][\A p \in Players :
         (PressSave(p) /\ ~isSaved[p]) => forms'[p] = <<>>]_vars

PressRefreshes ==
    [][\A p \in Players :
         /\ PressUpdate(p) =>
               /\ multi'[p][1] = [count |-> multi[p][1].count + 1,
                                  name |-> multi[p][1].name,
                                  isActive |-> TRUE]
               /\ presented'[p].content =
                     <<ToString(multi[p][1].count + 1), multi[p][1].name>>
               /\ presented'[p].isOn]_vars

\* the name was set in the background, then the button was pressed once: the
\* snapshot shows the new count, the new name and the active state
PressShowsBackgroundName ==
    \E p \in Players :
        /\ forms[p] = <<"MultiState">>
        /\ multi[p][1] = [count |-> 1, name |-> "Steve", isActive |-> TRUE]
        /\ presented[p].isOn
        /\ presented[p].content = <<"1", "Steve">>

OneLiveInterval ==
    [][\A p \in Players :
         /\ intervals'[p] =
               IF forms'[p] = <<"Countdown">> /\ timeLeft'[p][1] > 0
               THEN <<timeLeft'[p][1]>> ELSE <<>>
         /\ forms'[p] = <<"Countdown">> =>
               (timeLeft'[p][1] >= 0 /\ timeLeft'[p][1] <= 60)
         /\ (forms[p] = <<"Countdown">> /\ forms'[p] = <<"Countdown">>) =>
               \/ timeLeft'[p] = timeLeft[p]
               \/ /\ \E i \in DOMAIN intervals[p] : IntervalRun(p, i)
                  /\ timeLeft'[p] = <<timeLeft[p][1] - 1>>]_vars

\* the Countdown has gone from 60 to 0: the effect of the last execution
\* started no interval, and none is left from the sixty before
CountedDownToZero ==
    \E p \in Players :
        /\ forms[p] = <<"Countdown">>
        /\ timeLeft[p] = <<0>>
        /\ intervals[p] = <<>>

\* C30 (effect loops): with the condition count < 10 the count never passes
\* 10, the effect is due at every count below 10, and a mounted instance
\* goes on to count = 10 with nothing left to run, unless it is unmounted
\* first; without the condition the effect is due after each of its runs,
\* at every count.
EffectLoops ==
    /\ [](\A p \in Players :
            /\ forms[p] = <<"GuardedLoop">> =>
                  (loopCount[p][1] <= 10 /\ (loopCount[p][1] < 10 => effectDue[p]))
            /\ forms[p] = <<"UnguardedLoop">> => effectDue[p])
    /\ \A p \in Players :
          (forms[p] = <<"GuardedLoop">>) ~>
             \/ forms[p] # <<"GuardedLoop">>
             \/ loopCount[p] = <<10>> /\ ~effectDue[p]

\* one player's guarded effect has stopped at 10 while the unguarded effect
\* of the other has passed 10 and is due again
StableBesideUnstable ==
    \E p, q \in Players :
        /\ forms[p] = <<"GuardedLoop">>
        /\ loopCount[p] = <<10>> /\ ~effectDue[p]
        /\ forms[q] = <<"UnguardedLoop">>
        /\ loopCount[q][1] > 10 /\ effectDue[q]

====
